---- MODULE Spec2Model ----
(***************************************************************************)
(* Token lifecycle of PentaApi (pentadata_api.py): login at construction,  *)
(* lazy expiry checks at call time, refresh or re-login, header injection  *)
(* and delegation of the business request to the HTTP transport.           *)
(*                                                                         *)
(* Every blocking transport call (requests.post / requests.request) is a   *)
(* pair of steps: the step that issues it and the step that handles its    *)
(* response.  The clock may advance while a call is in flight or while the *)
(* manager is idle; the code between two transport calls runs in one step. *)
(***************************************************************************)
EXTENDS Integers, Sequences, FiniteSets, TLC

\* ------------------------------------------------------------------ bounds
\* Clock: seconds within one hour; the model starts at 00:52 of that hour.
Now0 == 52
MaxNow == 59

\* ------------------------------------------------------- program constants
DELTA == 5
ApiDomain == "https://api.pentadatainc.com"
LOGIN == "subscribers/login"
REFRESH == "subscribers/refresh"

\* urljoin(base, path) for a base without a path component
Urljoin(base, path) == base \o "/" \o path

\* ------------------------------------------------------------ value sets
\* Python None for the string-valued fields and for the timestamp fields.
None == "None"
NoStamp == <<>>

\* Expiry timestamps are text 'YYYYMMDDHHMMSS'.  The model keeps the date and
\* hour fixed and carries the last four characters, MMSS, as digits.
Stamps == { <<0, 0, 5, 8>>, <<0, 1, 0, 1>> }

Emails == {"a@b.com"}
ApiKeys == {"k"}
Tokens == {"T1", "T2"}
RefreshTokens == {"R1", "R2"}
Threads == {1, 2}
MainThread == 1

EmptyDict == [k \in {} |-> ""]

\* Bodies the login endpoint and the refresh endpoint can answer with.
LoginBodies ==
    [token : Tokens, expires : Stamps,
     refresh_token : RefreshTokens, refresh_expires : Stamps]
RefreshBodies == [token : Tokens, expires : Stamps]
AuthStatuses == {200, 401}
\* Answers of a business endpoint: status and body
BusinessResponses ==
    { [status |-> 200, body |-> [data |-> "ok"]],
      [status |-> 401, body |-> [data |-> "unauthorized"]],
      [status |-> 500, body |-> EmptyDict] }

Urls == {"/x"}
\* kwargs of a verb call: has = ('headers' in kwargs), headers = that dict
CallerKwargs ==
    { [has |-> FALSE, headers |-> EmptyDict],
      [has |-> TRUE, headers |-> [k \in {"X-Trace"} |-> "abc"]],
      [has |-> TRUE,
       headers |-> [k \in {"Authorization", "Content-type", "Accept"} |->
                      IF k = "Authorization" THEN "Basic xyz"
                      ELSE IF k = "Content-type" THEN "text/plain"
                      ELSE "text/html"]] }

VARIABLES
    mgr,              \* "none" | "ok" | "failed": outcome of PentaApi(...)
    email, api_key,   \* self.email, self.api_key
    token, expires,   \* self.token, self.expires
    refresh_token, refresh_expires,
    now,              \* datetime.utcnow(), seconds within the hour
    pc,               \* per thread: "idle" | "login" | "refresh" | "request"
    call,             \* per thread: the call in progress or last finished
    login_failed,     \* history: some login POST of this manager got a non-200
    last_token        \* history: data['token'] of the latest 200 login/refresh

vars == <<mgr, email, api_key, token, expires, refresh_token,
          refresh_expires, now, pc, call, login_failed, last_token>>

Session ==
    [token |-> token, expires |-> expires,
     refresh_token |-> refresh_token, refresh_expires |-> refresh_expires]

NoSession ==
    [token |-> None, expires |-> NoStamp,
     refresh_token |-> None, refresh_expires |-> NoStamp]

SetSession(s) ==
    /\ token' = s.token
    /\ expires' = s.expires
    /\ refresh_token' = s.refresh_token
    /\ refresh_expires' = s.refresh_expires

\* ------------------------------------------------------------ expiry checks
\* datetime.strptime(s, '%Y%m%d%H%M%S') restricted to the MMSS digits:
\* seconds since the start of the hour.
Strptime(s) == (s[1] * 10 + s[2]) * 60 + (s[3] * 10 + s[4])

IsExpired ==
    LET expiration == Strptime(expires)
    IN  IF expiration < now THEN TRUE ELSE expiration - now < DELTA

\* Variant of IsRefreshExpired: reads the access expiry
IsRefreshExpired_AccessField ==
    LET expiration == Strptime(expires)
    IN  IF expiration < now THEN TRUE ELSE expiration - now < DELTA

IsRefreshExpired ==
    LET expiration == Strptime(refresh_expires)
    IN  IF expiration < now THEN TRUE ELSE expiration - now < DELTA

\* ---------------------------------------------------------- transport calls
\* One transport call: the request as handed to `requests`, and its answer.
Exchange(u, m, h, j) ==
    [url |-> u, method |-> m, headers |-> h, json |-> j,
     done |-> FALSE, status |-> 0, body |-> EmptyDict]

Answer(x, st, b) == [x EXCEPT !.done = TRUE, !.status = st, !.body = b]

LoginUrl == Urljoin(ApiDomain, LOGIN)
RefreshUrl == Urljoin(ApiDomain, REFRESH)

\* _login: the POST it issues
LoginCall(e, k) ==
    Exchange(LoginUrl, "POST",
             [h \in {"Content-type"} |-> "application/json"],
             [email |-> e, api_key |-> k])

\* _refresh, else branch: the POST it issues
RefreshCall(tok) ==
    Exchange(RefreshUrl, "POST",
             [h \in {"Authorization"} |-> "Bearer " \o tok],
             EmptyDict)

\* Variant of OutHeaders: a caller's Content-type is kept (setdefault)
OutHeaders_KeepContentType(kw, tok) ==
    LET base == IF kw.has THEN kw.headers ELSE EmptyDict
    IN  [h \in DOMAIN base \cup {"Authorization", "Content-type"} |->
            IF h = "Authorization" THEN "Bearer " \o tok
            ELSE IF h \in DOMAIN base THEN base[h]
            ELSE "application/json"]

\* _request: kwargs['headers'] after the two assignments
OutHeaders(kw, tok) ==
    LET base == IF kw.has THEN kw.headers ELSE EmptyDict
    IN  [h \in DOMAIN base \cup {"Authorization", "Content-type"} |->
            IF h = "Authorization" THEN "Bearer " \o tok
            ELSE IF h = "Content-type" THEN "application/json"
            ELSE base[h]]

\* _request: requests.request(method, *args, **kwargs)
BusinessCall(m, u, kw, tok) == Exchange(u, m, OutHeaders(kw, tok), EmptyDict)

\* Variant of LoginSession: refresh_expires taken from data['expires']
LoginSession_ExpiresTwice(data) ==
    [token |-> data.token, expires |-> data.expires,
     refresh_token |-> data.refresh_token,
     refresh_expires |-> data.expires]

\* _login on 200: the four assignments from response.json()
LoginSession(data) ==
    [token |-> data.token, expires |-> data.expires,
     refresh_token |-> data.refresh_token,
     refresh_expires |-> data.refresh_expires]

\* Variant of RefreshSession: only the expiry is stored
RefreshSession_KeepToken(s, data) == [s EXCEPT !.expires = data.expires]

\* Variant of RefreshSession: the refresh expiry is renewed as well
RefreshSession_SlidingExpiry(s, data) ==
    [s EXCEPT !.token = data.token, !.expires = data.expires,
              !.refresh_expires = data.expires]

\* _refresh on 200: the two assignments from response.json()
RefreshSession(s, data) ==
    [s EXCEPT !.token = data.token, !.expires = data.expires]

\* Variants of AuthStep: _request without its _is_expired guard; _refresh
\* with its branches exchanged; _refresh without its _is_refresh_expired
\* branch; _request renewing as soon as either token is stale.
AuthStep_NoAccessCheck == IF IsRefreshExpired THEN "login" ELSE "refresh"
AuthStep_Inverted ==
    IF IsExpired
    THEN IF IsRefreshExpired THEN "refresh" ELSE "login"
    ELSE "request"
AuthStep_NoReLogin == IF IsExpired THEN "refresh" ELSE "request"
AuthStep_Eager ==
    IF IsExpired \/ IsRefreshExpired
    THEN IF IsRefreshExpired THEN "login" ELSE "refresh"
    ELSE "request"

\* _request and _refresh: which authentication call precedes the request
AuthStep ==
    IF IsExpired
    THEN IF IsRefreshExpired THEN "login" ELSE "refresh"
    ELSE "request"

\* ---------------------------------------------------------------- call state
NoResponse == [status |-> 0, body |-> EmptyDict]

NoCall ==
    [method |-> "", url |-> "", kwargs |-> [has |-> FALSE, headers |-> EmptyDict],
     accExp |-> FALSE, refExp |-> FALSE, pre |-> NoSession,
     log |-> <<>>, outcome |-> "none", ret |-> NoResponse]

CredentialsError == "ValueError: Credentials not valid"
RefreshError == "ValueError: Cannot refresh JWT"

Last(s) == s[Len(s)]
AnswerLast(log, st, b) == [log EXCEPT ![Len(log)] = Answer(log[Len(log)], st, b)]

Init ==
    /\ mgr = "none"
    /\ email = None
    /\ api_key = None
    /\ token = None
    /\ expires = NoStamp
    /\ refresh_token = None
    /\ refresh_expires = NoStamp
    /\ now = Now0
    /\ pc = [t \in Threads |-> "idle"]
    /\ call = [t \in Threads |-> NoCall]
    /\ login_failed = FALSE
    /\ last_token = None

\* ------------------------------------------------------------------ actions
\* PentaApi(email, api_key): __init__ up to the login POST
Construct(e, k) ==
    /\ mgr = "none"
    /\ pc[MainThread] = "idle"
    /\ email' = e
    /\ api_key' = k
    /\ SetSession(NoSession)
    /\ call' = [call EXCEPT ![MainThread] =
                   [NoCall EXCEPT !.method = "__init__",
                                  !.log = <<LoginCall(e, k)>>,
                                  !.outcome = "pending"]]
    /\ pc' = [pc EXCEPT ![MainThread] = "login"]
    /\ UNCHANGED <<mgr, now, login_failed, last_token>>

\* Variant of Request: a lock around refresh-and-request; a call starts only
\* while no other thread is inside one
Request_Locked(t, m, u, kw) ==
    /\ mgr = "ok"
    /\ pc[t] = "idle"
    /\ \A o \in Threads \ {t} : pc[o] = "idle"
    /\ LET step == AuthStep
           first == CASE step = "login" -> LoginCall(email, api_key)
                      [] step = "refresh" -> RefreshCall(refresh_token)
                      [] OTHER -> BusinessCall(m, u, kw, token)
       IN  /\ call' = [call EXCEPT ![t] =
                          [method |-> m, url |-> u, kwargs |-> kw,
                           accExp |-> IsExpired, refExp |-> IsRefreshExpired,
                           pre |-> Session, log |-> <<first>>,
                           outcome |-> "pending", ret |-> NoResponse]]
           /\ pc' = [pc EXCEPT ![t] = step]
    /\ UNCHANGED <<mgr, email, api_key, token, expires, refresh_token,
                   refresh_expires, now, login_failed, last_token>>

\* _request up to its first transport call: the expiry checks, then either
\* the login POST, the refresh POST or the business request itself
Request(t, m, u, kw) ==
    /\ mgr = "ok"
    /\ pc[t] = "idle"
    /\ LET step == AuthStep
           first == CASE step = "login" -> LoginCall(email, api_key)
                      [] step = "refresh" -> RefreshCall(refresh_token)
                      [] OTHER -> BusinessCall(m, u, kw, token)
       IN  /\ call' = [call EXCEPT ![t] =
                          [method |-> m, url |-> u, kwargs |-> kw,
                           accExp |-> IsExpired, refExp |-> IsRefreshExpired,
                           pre |-> Session, log |-> <<first>>,
                           outcome |-> "pending", ret |-> NoResponse]]
           /\ pc' = [pc EXCEPT ![t] = step]
    /\ UNCHANGED <<mgr, email, api_key, token, expires, refresh_token,
                   refresh_expires, now, login_failed, last_token>>

Get(t, u, kw) == Request(t, "GET", u, kw)
Post(t, u, kw) == Request(t, "POST", u, kw)
Put(t, u, kw) == Request(t, "PUT", u, kw)
Delete(t, u, kw) == Request(t, "DELETE", u, kw)

\* Variant of LoginRaise: the access token is dropped before raising
LoginRaise_DropToken(t, log1) ==
    /\ mgr' = IF call[t].method = "__init__" THEN "failed" ELSE mgr
    /\ pc' = [pc EXCEPT ![t] = "idle"]
    /\ call' = [call EXCEPT ![t] =
                   [call[t] EXCEPT !.log = log1, !.outcome = CredentialsError]]
    /\ login_failed' = TRUE
    /\ token' = None
    /\ UNCHANGED <<expires, refresh_token, refresh_expires, last_token>>

\* Variant of LoginRaise: any failed login makes the manager unusable
LoginRaise_Poison(t, log1) ==
    /\ mgr' = "failed"
    /\ pc' = [pc EXCEPT ![t] = "idle"]
    /\ call' = [call EXCEPT ![t] =
                   [call[t] EXCEPT !.log = log1, !.outcome = CredentialsError]]
    /\ login_failed' = TRUE
    /\ UNCHANGED <<token, expires, refresh_token, refresh_expires, last_token>>

\* _login, else branch: raise ValueError('Credentials not valid'); no field
\* is assigned, and a failed __init__ yields no manager
LoginRaise(t, log1) ==
    /\ mgr' = IF call[t].method = "__init__" THEN "failed" ELSE mgr
    /\ pc' = [pc EXCEPT ![t] = "idle"]
    /\ call' = [call EXCEPT ![t] =
                   [call[t] EXCEPT !.log = log1, !.outcome = CredentialsError]]
    /\ login_failed' = TRUE
    /\ UNCHANGED <<token, expires, refresh_token, refresh_expires, last_token>>

\* Variant of RefreshRaise: a failed refresh falls back to a login
RefreshRaise_FallbackLogin(t, log1) ==
    /\ pc' = [pc EXCEPT ![t] = "login"]
    /\ call' = [call EXCEPT ![t] =
                   [call[t] EXCEPT !.log = Append(log1, LoginCall(email, api_key))]]
    /\ UNCHANGED <<token, expires, refresh_token, refresh_expires, last_token>>

\* Variant of RefreshRaise: the rejected refresh token is discarded
RefreshRaise_DropRefreshToken(t, log1) ==
    /\ pc' = [pc EXCEPT ![t] = "idle"]
    /\ call' = [call EXCEPT ![t] =
                   [call[t] EXCEPT !.log = log1, !.outcome = RefreshError]]
    /\ refresh_token' = None
    /\ UNCHANGED <<token, expires, refresh_expires, last_token>>

\* _refresh, else branch: raise ValueError('Cannot refresh JWT')
RefreshRaise(t, log1) ==
    /\ pc' = [pc EXCEPT ![t] = "idle"]
    /\ call' = [call EXCEPT ![t] =
                   [call[t] EXCEPT !.log = log1, !.outcome = RefreshError]]
    /\ UNCHANGED <<token, expires, refresh_token, refresh_expires, last_token>>

\* _login from its response on: 200 stores the session and control returns to
\* __init__ or continues in _request; anything else raises
LoginResponse(t, st, b) ==
    /\ pc[t] = "login"
    /\ LET c == call[t]
           log1 == AnswerLast(c.log, st, b)
           ctor == c.method = "__init__"
       IN  IF st = 200
           THEN /\ SetSession(LoginSession(b))
                /\ last_token' = b.token
                /\ login_failed' = login_failed
                /\ IF ctor
                   THEN /\ mgr' = "ok"
                        /\ pc' = [pc EXCEPT ![t] = "idle"]
                        /\ call' = [call EXCEPT ![t] =
                                       [c EXCEPT !.log = log1,
                                                 !.outcome = "returned"]]
                   ELSE /\ mgr' = mgr
                        /\ pc' = [pc EXCEPT ![t] = "request"]
                        /\ call' = [call EXCEPT ![t] =
                                       [c EXCEPT !.log = Append(log1,
                                           BusinessCall(c.method, c.url, c.kwargs,
                                                        LoginSession(b).token))]]
           ELSE LoginRaise(t, log1)
    /\ UNCHANGED <<email, api_key, now>>

\* Variant of RefreshResponse: the new expiry is checked and a token that is
\* already within the margin is refreshed again
RefreshResponse_Recheck(t, st, b) ==
    /\ pc[t] = "refresh"
    /\ LET c == call[t]
           log1 == AnswerLast(c.log, st, b)
       IN  IF st = 200
           THEN /\ SetSession(RefreshSession(Session, b))
                /\ last_token' = b.token
                /\ IF Strptime(b.expires) - now < DELTA
                   THEN /\ pc' = pc
                        /\ call' = [call EXCEPT ![t] =
                                       [c EXCEPT !.log = Append(log1,
                                           RefreshCall(refresh_token))]]
                   ELSE /\ pc' = [pc EXCEPT ![t] = "request"]
                        /\ call' = [call EXCEPT ![t] =
                                       [c EXCEPT !.log = Append(log1,
                                           BusinessCall(c.method, c.url, c.kwargs,
                                               RefreshSession(Session, b).token))]]
           ELSE RefreshRaise(t, log1)
    /\ UNCHANGED <<mgr, email, api_key, now, login_failed>>

\* _refresh from the refresh endpoint's response on: 200 stores token and
\* expires and control continues in _request; anything else raises
RefreshResponse(t, st, b) ==
    /\ pc[t] = "refresh"
    /\ LET c == call[t]
           log1 == AnswerLast(c.log, st, b)
       IN  IF st = 200
           THEN /\ SetSession(RefreshSession(Session, b))
                /\ last_token' = b.token
                /\ pc' = [pc EXCEPT ![t] = "request"]
                /\ call' = [call EXCEPT ![t] =
                               [c EXCEPT !.log = Append(log1,
                                   BusinessCall(c.method, c.url, c.kwargs,
                                                RefreshSession(Session, b).token))]]
           ELSE RefreshRaise(t, log1)
    /\ UNCHANGED <<mgr, email, api_key, now, login_failed>>

\* Variant of BusinessResponse: a 401 answer triggers a refresh
BusinessResponse_RefreshOn401(t, st, b) ==
    /\ pc[t] = "request"
    /\ LET c == call[t]
           log1 == AnswerLast(c.log, st, b)
       IN  IF st = 401
           THEN /\ call' = [call EXCEPT ![t] =
                               [c EXCEPT !.log = Append(log1,
                                                       RefreshCall(refresh_token))]]
                /\ pc' = [pc EXCEPT ![t] = "refresh"]
           ELSE /\ call' = [call EXCEPT ![t] =
                               [c EXCEPT !.log = log1, !.outcome = "returned",
                                         !.ret = [status |-> Last(log1).status,
                                                  body |-> Last(log1).body]]]
                /\ pc' = [pc EXCEPT ![t] = "idle"]
    /\ UNCHANGED <<mgr, email, api_key, token, expires, refresh_token,
                   refresh_expires, now, login_failed, last_token>>

\* _request: requests.request(...) answers and its response is returned
BusinessResponse(t, st, b) ==
    /\ pc[t] = "request"
    /\ LET c == call[t]
           log1 == AnswerLast(c.log, st, b)
       IN  call' = [call EXCEPT ![t] =
                       [c EXCEPT !.log = log1, !.outcome = "returned",
                                 !.ret = [status |-> Last(log1).status,
                                          body |-> Last(log1).body]]]
    /\ pc' = [pc EXCEPT ![t] = "idle"]
    /\ UNCHANGED <<mgr, email, api_key, token, expires, refresh_token,
                   refresh_expires, now, login_failed, last_token>>

\* datetime.utcnow() advances
Tick ==
    /\ now < MaxNow
    /\ now' = now + 1
    /\ UNCHANGED <<mgr, email, api_key, token, expires, refresh_token,
                   refresh_expires, pc, call, login_failed, last_token>>

\* Bodies of non-200 answers: empty, or carrying fields the code must ignore
AuthErrorBodies ==
    { EmptyDict,
      [token |-> "T2", expires |-> <<0, 1, 0, 1>>,
       refresh_token |-> "R2", refresh_expires |-> <<0, 1, 0, 1>>] }

Step(t) ==
    \/ \E u \in Urls, kw \in CallerKwargs : Get(t, u, kw)
    \/ \E u \in Urls, kw \in CallerKwargs : Post(t, u, kw)
    \/ \E u \in Urls, kw \in CallerKwargs : Put(t, u, kw)
    \/ \E u \in Urls, kw \in CallerKwargs : Delete(t, u, kw)
    \/ \E b \in LoginBodies : LoginResponse(t, 200, b)
    \/ \E st \in AuthStatuses \ {200}, b \in AuthErrorBodies :
          LoginResponse(t, st, b)
    \/ \E b \in RefreshBodies : RefreshResponse(t, 200, b)
    \/ \E st \in AuthStatuses \ {200}, b \in AuthErrorBodies :
          RefreshResponse(t, st, b)
    \/ \E r \in BusinessResponses : BusinessResponse(t, r.status, r.body)

\* Single-threaded use: every call is made from the main thread, so a call
\* starts only after the previous one has returned or raised.
Next ==
    \/ \E e \in Emails, k \in ApiKeys : Construct(e, k)
    \/ Step(MainThread)
    \/ Tick

Spec == Init /\ [][Next]_vars

\* Overlapping use: two threads call get() on one manager.  Nothing in
\* PentaApi serialises them, so their steps interleave at every transport
\* call.
NoHeaders == [has |-> FALSE, headers |-> EmptyDict]

\* Answers of the two endpoints in overlapping use: a login grants a short
\* access token and a longer refresh token, a refresh grants any token with
\* any expiry.
ConcLoginBodies ==
    { [token |-> "T1", expires |-> <<0, 0, 5, 8>>,
       refresh_token |-> "R1", refresh_expires |-> <<0, 1, 0, 1>>] }

StepConc(t) ==
    \/ \E u \in Urls : Get(t, u, NoHeaders)
    \/ \E b \in ConcLoginBodies : LoginResponse(t, 200, b)
    \/ LoginResponse(t, 401, EmptyDict)
    \/ \E b \in RefreshBodies : RefreshResponse(t, 200, b)
    \/ RefreshResponse(t, 401, EmptyDict)
    \/ BusinessResponse(t, 200, [data |-> "ok"])

NextConc ==
    \/ \E e \in Emails, k \in ApiKeys : Construct(e, k)
    \/ \E t \in Threads : StepConc(t)
    \/ Tick

SpecConc == Init /\ [][NextConc]_vars

\* ------------------------------------------------------------------ claims
Verbs == {"GET", "POST", "PUT", "DELETE"}
IsVerbCall(c) == c.method \in Verbs
IsLoginCall(x) == x.url = LoginUrl
IsRefreshCall(x) == x.url = RefreshUrl
IsBusinessCall(x) == x.url \in Urls
LoginCalls(c) == {i \in 1..Len(c.log) : IsLoginCall(c.log[i])}
RefreshCalls(c) == {i \in 1..Len(c.log) : IsRefreshCall(c.log[i])}
BusinessCalls(c) == {i \in 1..Len(c.log) : IsBusinessCall(c.log[i])}
Ok(x) == x.done /\ x.status = 200
Failed(x) == x.done /\ x.status # 200

\* C1: a verb call that starts with the access token expired and the refresh
\* token fresh issues a refresh call first, exactly one, and no login call;
\* once that call is answered 200 the business request follows it, carrying
\* the token of the refresh answer, and nothing is sent before the answer.
C1_RefreshThenRequest ==
    \A t \in Threads :
        LET c == call[t]
        IN  (IsVerbCall(c) /\ c.accExp /\ ~c.refExp) =>
                /\ Len(c.log) >= 1
                /\ IsRefreshCall(c.log[1])
                /\ RefreshCalls(c) = {1}
                /\ LoginCalls(c) = {}
                /\ ~Ok(c.log[1]) => Len(c.log) = 1
                /\ Ok(c.log[1]) =>
                      /\ Len(c.log) = 2
                      /\ IsBusinessCall(c.log[2])
                      /\ c.log[2].method = c.method
                      /\ c.log[2].headers["Authorization"] =
                            "Bearer " \o c.log[1].body.token

C1_Witness ==
    \E t \in Threads :
        LET c == call[t]
        IN  /\ IsVerbCall(c) /\ c.accExp /\ ~c.refExp
            /\ Len(c.log) = 2
            /\ Ok(c.log[1])
            /\ c.log[1].body.token # c.pre.token
            /\ c.outcome = "returned"

\* C2: a verb call that starts with the access token not expired issues no
\* login and no refresh call, leaves the session as it was, and its single
\* business request carries "Bearer <access token>".
C2_FreshTokenNoAuth ==
    \A t \in Threads :
        LET c == call[t]
        IN  (IsVerbCall(c) /\ ~c.accExp) =>
                /\ Len(c.log) = 1
                /\ IsBusinessCall(c.log[1])
                /\ c.log[1].method = c.method
                /\ c.log[1].headers["Authorization"] = "Bearer " \o c.pre.token
                /\ Session = c.pre

C2_Witness ==
    \E t \in Threads :
        LET c == call[t]
        IN  /\ IsVerbCall(c) /\ ~c.accExp /\ ~c.refExp
            /\ c.outcome = "returned"
            /\ c.log[1].headers["Authorization"] = "Bearer T1"

\* C3 as stated: a verb call that starts with a fresh access token and an
\* expired refresh token issues a login call and no refresh call.
C3_Original ==
    \A t \in Threads :
        LET c == call[t]
        IN  (IsVerbCall(c) /\ ~c.accExp /\ c.refExp) =>
                /\ IsLoginCall(c.log[1])
                /\ RefreshCalls(c) = {}

\* C3 amended: a verb call that starts with an expired refresh token never
\* calls the refresh endpoint; it re-logs in when the access token is expired
\* too, and with a fresh access token it issues no authentication call at all
\* and sends the business request with the current access token.
C3_ReLoginOnlyWhenAccessExpired ==
    \A t \in Threads :
        LET c == call[t]
        IN  (IsVerbCall(c) /\ c.refExp) =>
                /\ RefreshCalls(c) = {}
                /\ c.accExp => IsLoginCall(c.log[1])
                /\ ~c.accExp =>
                      /\ LoginCalls(c) = {}
                      /\ IsBusinessCall(c.log[1])
                      /\ c.log[1].headers["Authorization"] =
                            "Bearer " \o c.pre.token

C3_Witness ==
    \E t \in Threads :
        LET c == call[t]
        IN  /\ IsVerbCall(c) /\ ~c.accExp /\ c.refExp
            /\ pc[t] = "request"
            /\ Len(c.log) = 1

\* C4: the headers of every business request are the caller's headers with
\* Authorization set to "Bearer <current access token>" and Content-type set
\* to "application/json": no other key is added or dropped, every other value
\* is the caller's, and the caller's values for the two keys are overwritten.
C4_HeadersInjected ==
    \A t \in Threads :
        LET c == call[t]
            given == IF c.kwargs.has THEN c.kwargs.headers ELSE EmptyDict
        IN  \A i \in BusinessCalls(c) :
                LET out == c.log[i].headers
                IN  /\ DOMAIN out =
                          DOMAIN given \cup {"Authorization", "Content-type"}
                    /\ out["Authorization"] = "Bearer " \o token
                    /\ out["Content-type"] = "application/json"
                    /\ \A h \in DOMAIN given \ {"Authorization", "Content-type"} :
                          out[h] = given[h]

C4_Witness ==
    \E t \in Threads :
        LET c == call[t]
        IN  /\ c.kwargs.has
            /\ {"Authorization", "Content-type", "Accept"} \subseteq
                  DOMAIN c.kwargs.headers
            /\ BusinessCalls(c) # {}
            /\ c.log[Len(c.log)].headers["Accept"] = "text/html"
            /\ c.log[Len(c.log)].headers["Authorization"] # 
                  c.kwargs.headers["Authorization"]

\* C5: at every verb call the access-expiry check and the refresh-expiry
\* check each answer TRUE exactly when their own expiry E is earlier than the
\* clock N or less than 5 seconds after it, and FALSE when 5 seconds or more
\* remain.
C5_ExpiryRule ==
    [][\A t \in Threads :
          (mgr = "ok" /\ pc[t] = "idle" /\ pc'[t] # "idle") =>
              LET E == Strptime(expires)
                  R == Strptime(refresh_expires)
              IN  /\ call'[t].accExp = (E < now \/ E - now < 5)
                  /\ call'[t].refExp = (R < now \/ R - now < 5)
                  /\ E - now >= 5 => ~call'[t].accExp
                  /\ R - now >= 5 => ~call'[t].refExp]_vars

\* The access check answered TRUE with 4 seconds left (the clock has not moved
\* since: it only advances) while the refresh check answered FALSE.
C5_Witness ==
    \E t \in Threads :
        /\ pc[t] = "refresh"
        /\ call[t].accExp /\ ~call[t].refExp
        /\ Strptime(expires) - now = 4
        /\ Strptime(refresh_expires) - now >= 5

\* C6 as stated: after any login call answered with a status other than 200,
\* at construction or during a re-login, the call has failed with the
\* credentials error and none of the four session fields holds a value.
C6_Original ==
    \A t \in Threads :
        LET c == call[t]
        IN  \A i \in LoginCalls(c) :
                Failed(c.log[i]) =>
                    /\ c.outcome = CredentialsError
                    /\ Session = NoSession

\* C6 amended: after any login call answered with a status other than 200 the
\* call has failed with the credentials error and no session field has
\* changed: at construction none of the four holds a value, during a re-login
\* all four keep the values they had before the verb call.
C6_FailedLoginChangesNothing ==
    \A t \in Threads :
        LET c == call[t]
        IN  \A i \in LoginCalls(c) :
                Failed(c.log[i]) =>
                    /\ c.outcome = CredentialsError
                    /\ pc[t] = "idle"
                    /\ Session = c.pre
                    /\ c.method = "__init__" =>
                          (Session = NoSession /\ mgr = "failed")

C6_Witness ==
    \E t \in Threads :
        LET c == call[t]
        IN  /\ IsVerbCall(c)
            /\ LoginCalls(c) = {1}
            /\ Failed(c.log[1])
            /\ c.log[1].body # EmptyDict
            /\ Session = c.pre
            /\ Session # NoSession

\* C7: after any login call answered 200 the four session fields are the
\* token, expires, refresh_token and refresh_expires of the answer's body.
C7_LoginPopulates ==
    \A t \in Threads :
        LET c == call[t]
        IN  \A i \in LoginCalls(c) :
                Ok(c.log[i]) =>
                    /\ token = c.log[i].body.token
                    /\ expires = c.log[i].body.expires
                    /\ refresh_token = c.log[i].body.refresh_token
                    /\ refresh_expires = c.log[i].body.refresh_expires

\* A re-login that replaced every field of the previous session.
C7_Witness ==
    \E t \in Threads :
        LET c == call[t]
        IN  /\ IsVerbCall(c)
            /\ LoginCalls(c) = {1}
            /\ Ok(c.log[1])
            /\ token # c.pre.token
            /\ expires # c.pre.expires
            /\ refresh_token # c.pre.refresh_token
            /\ refresh_expires # c.pre.refresh_expires

\* C8: a verb call that starts with both tokens expired issues a login call
\* first, exactly one, with the manager's email and api_key as payload, and
\* no refresh call; a business request is sent only after that login was
\* answered 200 and the four session fields were replaced from its body.  The
\* email and api_key of a constructed manager never change.
C8_BothExpired ==
    \A t \in Threads :
        LET c == call[t]
        IN  (IsVerbCall(c) /\ c.accExp /\ c.refExp) =>
                /\ Len(c.log) >= 1
                /\ IsLoginCall(c.log[1])
                /\ c.log[1].method = "POST"
                /\ c.log[1].json = [email |-> email, api_key |-> api_key]
                /\ LoginCalls(c) = {1}
                /\ RefreshCalls(c) = {}
                /\ BusinessCalls(c) # {} =>
                      /\ BusinessCalls(c) = {2}
                      /\ Ok(c.log[1])
                      /\ Session = c.log[1].body
                      /\ c.log[2].headers["Authorization"] =
                            "Bearer " \o c.log[1].body.token

C8_ReLogin ==
    /\ []C8_BothExpired
    /\ [][mgr = "ok" => (email' = email /\ api_key' = api_key)]_vars

C8_Witness ==
    \E t \in Threads :
        LET c == call[t]
        IN  /\ IsVerbCall(c) /\ c.accExp /\ c.refExp
            /\ pc[t] = "request"
            /\ Len(c.log) = 2
            /\ Session # c.pre
            /\ c.log[1].json.api_key = "k"

\* C9: the step that handles a 200 answer of the refresh endpoint sets
\* access token and access expiry to the answer's token and expires and
\* leaves refresh_token, refresh_expires, email and api_key as they were.
C9_RefreshFrame ==
    [][\A t \in Threads :
          (pc[t] = "refresh" /\ Ok(call'[t].log[1])) =>
              /\ token' = call'[t].log[1].body.token
              /\ expires' = call'[t].log[1].body.expires
              /\ refresh_token' = refresh_token
              /\ refresh_expires' = refresh_expires
              /\ email' = email
              /\ api_key' = api_key]_vars

C9_Witness ==
    \E t \in Threads :
        LET c == call[t]
        IN  /\ pc[t] = "request"
            /\ Len(c.log) = 2
            /\ IsRefreshCall(c.log[1])
            /\ Ok(c.log[1])
            /\ token # c.pre.token
            /\ expires # c.pre.expires
            /\ refresh_token = c.pre.refresh_token
            /\ refresh_expires = c.pre.refresh_expires

\* C10: once a verb call's refresh call is answered with a status other than
\* 200 the verb call has failed with the refresh error, and that refresh call
\* is its only transport call: no second refresh, no login, no business
\* request.
C10_RefreshFailureStops ==
    \A t \in Threads :
        LET c == call[t]
        IN  \A i \in RefreshCalls(c) :
                Failed(c.log[i]) =>
                    /\ Len(c.log) = 1
                    /\ c.outcome = RefreshError
                    /\ pc[t] = "idle"

C10_Witness ==
    \E t \in Threads :
        LET c == call[t]
        IN  /\ IsVerbCall(c)
            /\ RefreshCalls(c) = {1}
            /\ Failed(c.log[1])
            /\ c.outcome = RefreshError

\* C11: whenever a verb call hands its business request to the transport, the
\* access token it carries is not expired under the 5-second margin: at least
\* 5 seconds remain until the stored access expiry.
C11_NeverSentExpired ==
    [][\A t \in Threads :
          (pc[t] # "request" /\ pc'[t] = "request") =>
              /\ Last(call'[t].log).headers["Authorization"] = "Bearer " \o token'
              /\ Strptime(expires') - now' >= 5]_vars

\* C12: the step that receives the business endpoint's answer, whatever its
\* status, ends the verb call by returning exactly that status and body: no
\* error is raised, no further transport call is issued, and the session is
\* left as it was.
C12_ResponsePassThrough ==
    [][\A t \in Threads :
          (pc[t] = "request" /\ pc'[t] # "request") =>
              LET x == Last(call'[t].log)
              IN  /\ pc'[t] = "idle"
                  /\ call'[t].outcome = "returned"
                  /\ Len(call'[t].log) = Len(call[t].log)
                  /\ IsBusinessCall(x) /\ x.done
                  /\ call'[t].ret = [status |-> x.status, body |-> x.body]
                  /\ Session' = Session]_vars

C12_Witness ==
    \E t \in Threads :
        LET c == call[t]
        IN  /\ IsVerbCall(c)
            /\ pc[t] = "idle"
            /\ c.outcome = "returned"
            /\ c.ret.status = 401
            /\ c.ret.body = [data |-> "unauthorized"]
            /\ LoginCalls(c) = {} /\ RefreshCalls(c) = {}
            /\ Session = c.pre

\* C13 as stated: once a login call of the manager was answered with a status
\* other than 200, at construction or during a re-login, no verb call hands a
\* business request to the transport any more.
C13_Original ==
    [][login_failed =>
          \A t \in Threads : ~(pc[t] # "request" /\ pc'[t] = "request")]_vars

\* C13 amended: a login answered non-200 at construction leaves no manager:
\* the constructor has raised the credentials error, no session field holds a
\* value and no verb call is ever made.  A login answered non-200 during a
\* re-login leaves the manager usable: verb calls can still be made on it.
C13_OnlyFailedConstructionIsFatal ==
    /\ mgr = "failed" =>
          /\ login_failed
          /\ Session = NoSession
          /\ \A t \in Threads : pc[t] = "idle" /\ ~IsVerbCall(call[t])
          /\ call[MainThread].method = "__init__"
          /\ call[MainThread].outcome = CredentialsError
    /\ (login_failed /\ mgr # "failed") =>
          /\ mgr = "ok"
          /\ \A t \in Threads :
                pc[t] = "idle" =>
                    \A u \in Urls, kw \in CallerKwargs : ENABLED Get(t, u, kw)

\* A business request in flight on a manager one of whose earlier logins failed.
C13_Witness ==
    \E t \in Threads :
        LET c == call[t]
        IN  /\ login_failed
            /\ mgr = "ok"
            /\ pc[t] = "request"
            /\ LoginCalls(c) = {1}
            /\ Ok(c.log[1])

\* C14: a verb call that failed in its authentication step (refresh or
\* re-login answered non-200) has left the four session fields as they were
\* before the call.
AuthFailed(c) ==
    IsVerbCall(c) /\ c.outcome \in {CredentialsError, RefreshError}

C14_SessionKept ==
    \A t \in Threads : AuthFailed(call[t]) => Session = call[t].pre

\* C14 as stated: besides, the next verb call finds the access token expired
\* again and issues the same authentication call as the failed one.
C14_Original ==
    /\ []C14_SessionKept
    /\ [][\A t \in Threads :
             (AuthFailed(call[t]) /\ pc[t] = "idle" /\ pc'[t] # "idle") =>
                 /\ call'[t].accExp
                 /\ pc'[t] = IF call[t].outcome = RefreshError
                             THEN "refresh" ELSE "login"]_vars

\* C14 amended: besides, the next verb call finds the access token expired
\* again and issues an authentication call: a login after a failed login;
\* after a failed refresh a refresh again while the refresh token has 5
\* seconds or more left, and a login once it has not.
C14_RetryAfterFailure ==
    /\ []C14_SessionKept
    /\ [][\A t \in Threads :
             (AuthFailed(call[t]) /\ pc[t] = "idle" /\ pc'[t] # "idle") =>
                 /\ call'[t].accExp
                 /\ call'[t].pre = call[t].pre
                 /\ pc'[t] = IF /\ call[t].outcome = RefreshError
                                /\ Strptime(refresh_expires) - now >= 5
                             THEN "refresh" ELSE "login"]_vars

\* A failed refresh whose refresh token has come within the margin since.
C14_Witness ==
    \E t \in Threads :
        LET c == call[t]
        IN  /\ AuthFailed(c)
            /\ pc[t] = "idle"
            /\ c.outcome = RefreshError
            /\ ~c.refExp
            /\ Session = c.pre
            /\ Strptime(refresh_expires) - now < 5

\* C15: in single-threaded use the bearer token of every business request is
\* the token of the latest 200 answer of the login or refresh endpoint, and a
\* constructed manager has a value in each of its four session fields.
C15_TokenIsLatestGranted ==
    /\ \A t \in Threads :
          \A i \in BusinessCalls(call[t]) :
              call[t].log[i].headers["Authorization"] = "Bearer " \o last_token
    /\ mgr = "ok" =>
          /\ token \in Tokens
          /\ expires \in Stamps
          /\ refresh_token \in RefreshTokens
          /\ refresh_expires \in Stamps

\* A request carrying the token of a refresh that followed the login.
C15_Witness ==
    \E t \in Threads :
        LET c == call[t]
        IN  /\ IsVerbCall(c)
            /\ Len(c.log) = 2
            /\ IsRefreshCall(c.log[1]) /\ Ok(c.log[1])
            /\ c.log[1].body.token # c.pre.token
            /\ c.log[2].headers["Authorization"] = "Bearer " \o last_token
            /\ last_token = c.log[1].body.token

\* C16: a verb call makes at most two transport calls: at most one
\* authentication call (a login or a refresh, not both) and at most one
\* business request, the authentication call first.  The call is waiting on
\* its latest transport call only and is over once that call is answered,
\* unless it was an authentication call answered 200: then the business
\* request follows at once, whatever expiry the answer carried.
C16_AtMostTwoCalls ==
    \A t \in Threads :
        LET c == call[t]
            auth == LoginCalls(c) \cup RefreshCalls(c)
        IN  IsVerbCall(c) =>
                /\ Len(c.log) \in 1..2
                /\ Cardinality(auth) <= 1
                /\ Cardinality(BusinessCalls(c)) <= 1
                /\ \A i \in auth : \A j \in BusinessCalls(c) :
                      i < j /\ Ok(c.log[i])
                /\ \A i \in 1..(Len(c.log) - 1) : c.log[i].done
                /\ (pc[t] = "idle") <=> Last(c.log).done
                /\ \A i \in auth : Ok(c.log[i]) => BusinessCalls(c) = {i + 1}

\* The login or refresh answered 200 with the very expiry that had been found
\* expired, and the business request was sent and answered all the same.
C16_Witness ==
    \E t \in Threads :
        LET c == call[t]
        IN  /\ IsVerbCall(c)
            /\ c.accExp
            /\ Len(c.log) = 2
            /\ Ok(c.log[1])
            /\ c.log[1].body.expires = c.pre.expires
            /\ Strptime(expires) - now < 5
            /\ c.outcome = "returned"

\* C17: no mutual exclusion protects the session: on a constructed manager
\* an idle thread can start a verb call whatever the other thread is doing,
\* also while that thread is waiting for its refresh or login answer or has
\* its business request in flight.
C17_NoMutualExclusion ==
    \A t \in Threads :
        (mgr = "ok" /\ pc[t] = "idle") =>
            \A u \in Urls : ENABLED Get(t, u, NoHeaders)

\* Two calls that both found the same access expiry stale and the refresh
\* token fresh have both called the refresh endpoint, the first answer
\* replaced the token before the second call had read the session again, and
\* one business request is in flight with a token that is not the session's
\* access token any more.
C17_Witness ==
    \E a \in Threads : \E b \in Threads \ {a} :
        LET ca == call[a]
            cb == call[b]
        IN  /\ IsVerbCall(ca) /\ IsVerbCall(cb)
            /\ ca.accExp /\ ~ca.refExp
            /\ cb.accExp /\ ~cb.refExp
            /\ ca.pre = cb.pre
            /\ IsRefreshCall(ca.log[1]) /\ Ok(ca.log[1])
            /\ IsRefreshCall(cb.log[1]) /\ Ok(cb.log[1])
            /\ ca.log[1].body.token # ca.pre.token
            /\ pc[a] = "request"
            /\ Last(ca.log).headers["Authorization"] # "Bearer " \o token

====
